---- MODULE Spec2Model ----
(***************************************************************************)
(* MineGraph.py: the command-line driver that resolves a list of FASTA     *)
(* file names and runs five containerised stages one after the other.     *)
(* The model follows one process from its start (either the script's      *)
(* __main__ block or a direct call of run_workflow) to its exit.           *)
(***************************************************************************)
EXTENDS Integers, Sequences, FiniteSets, TLC

\* ------------------------------------------------------------------ bounds
MaxRows == 2
MaxEntries == 2
MaxRC == 1

\* ------------------------------------------------- optional values (None)
None == <<>>
Some(v) == <<v>>

\* ----------------------------------------------------------------- inputs
DataDirs == {"/d"}
OutputDirs == {"/o", "out"}
MetadataPaths == {"", "list.csv", "list.xlsx", "list.txt"}
QuantileTokens == {"5", "25", "100", "0.25", "-5"}
ManifestNames == {"a.fasta", "b.fasta"}
DirNames == {"a.fasta", "b.fa", "c.fasta.gz", "d_fasta", ".fasta"}
Cwd == "/w"
OutStates == {"absent", "dir", "file"}
ReturnCodes == 0..MaxRC

SeqsUpTo(S, n) == UNION {[1..k -> S] : k \in 0..n}

\* a directory holds each name once; os.listdir returns them in any order
Listings == {l \in SeqsUpTo(DirNames, MaxEntries) :
               \A i, j \in DOMAIN l : i # j => l[i] # l[j]}

\* a table is a sequence of columns of equal length
Tables ==
    {<<>>}
    \cup {<<[name |-> "fasta_files", values |-> v]>> :
             v \in SeqsUpTo(ManifestNames, MaxRows)}
    \cup {<<[name |-> "fasta_files", values |-> v],
            [name |-> "note", values |-> [i \in DOMAIN v |-> "x"]]>> :
             v \in SeqsUpTo(ManifestNames, MaxRows)}

\* what is found at the manifest path: nothing, or a table
ManifestFiles == {None} \cup {Some(t) : t \in Tables}

OptFlag(flag, vals) == {<<>>} \cup {<<flag, v>> : v \in vals}

\* command lines built from the long options, each at most once
PlainArgvs ==
    {h \o d \o o \o m \o q :
        h \in {<<>>, <<"-h">>},
        d \in OptFlag("--data_dir", DataDirs),
        o \in OptFlag("--output_dir", OutputDirs),
        m \in OptFlag("--metadata", MetadataPaths),
        q \in OptFlag("--quantile", QuantileTokens)}

\* command lines in the other forms argparse reads
OtherArgvs ==
    {<<"--data_dir=/d", "--output_dir=/o", "--metadata=list.csv",
       "--threads=8">>,
     <<"--data_dir=/d", "--output_dir=/o", "--metadata=">>,
     <<"--data", "/d", "--out", "/o", "--meta", "">>,
     <<"--data_dir", "/zz", "--data_dir", "/d", "--output_dir", "/o",
       "--metadata", "">>,
     <<"--data_dir", "/d", "--output_dir", "/o", "--metadata", "", "--help">>,
     <<"--help">>,
     <<"-hh">>,
     <<"-hx">>,
     <<"-h", "--t", "3">>,
     <<"--quantile", "x", "-h">>,
     <<"--bogus", "-h">>,
     <<"--data_dir", "/d", "--output_dir", "/o", "--metadata", "",
       "--threads", "x">>,
     <<"--data_dir", "/d", "--output_dir", "/o", "--metadata", "list.csv",
       "--threads", "64">>,
     <<"--data_dir", "/d", "--output_dir", "/o", "--metadata", "",
       "--tree_pars", "3", "--tree_bs", "4", "--top_n", "7">>,
     <<"--data_dir", "/d", "--output_dir", "/o", "--metadata", "",
       "--quantile", "+7">>,
     <<"--data_dir", "/d", "--output_dir", "/o", "--metadata", "",
       "--quantile", " 1_0 ">>,
     <<"--data_dir", "/d", "--output_dir", "/o", "--metadata", "",
       "--quantile=-0">>,
     <<"--data_dir", "/d", "--output_dir", "/o", "--metadata", "",
       "--quantile", "-5\n">>,
     <<"--data_dir", "/d", "--output_dir", "/o", "--metadata", "",
       "--quantile", "5">>,
     <<"--data_dir", "--", "/d", "--output_dir", "/o", "--metadata", "">>,
     <<"--data_dir", "/d", "--output_dir", "/o", "--metadata", "", "extra">>,
     <<"--data_dir", "/d", "--output_dir", "/o", "--metadata", "", "--bogus">>,
     <<"--data_dir", "/d", "--output_dir", "/o", "--metadata">>}

Argvs == PlainArgvs \cup OtherArgvs

\* ------------------------------------------------------- string helpers
EndsWith(s, suf) ==
    /\ Len(s) >= Len(suf)
    /\ SubSeq(s, Len(s) - Len(suf) + 1, Len(s)) = suf

StartsWith(s, pre) ==
    /\ Len(s) >= Len(pre)
    /\ SubSeq(s, 1, Len(pre)) = pre

Digits == "0123456789"
DigitChar(d) == SubSeq(Digits, d + 1, d + 1)
IsDigit(c) == \E d \in 0..9 : DigitChar(d) = c
DigitVal(c) == CHOOSE d \in 0..9 : DigitChar(d) = c

Char(s, i) == SubSeq(s, i, i)

\* s.find(c) + 1: the first position of the character c in s, 0 when absent
IndexOf(s, c) ==
    IF \E i \in 1..Len(s) : Char(s, i) = c
    THEN CHOOSE i \in 1..Len(s) :
            /\ Char(s, i) = c
            /\ \A j \in 1..(i - 1) : Char(s, j) # c
    ELSE 0

\* the ASCII characters int() skips at both ends of its argument; the
\* fourth is the vertical tab (0x0B), written as the character itself
Whitespace == {" ", "\t", "\n", "", "\f", "\r"}

\* s with that whitespace removed at both ends
RECURSIVE Strip(_)
Strip(s) ==
    IF Len(s) = 0 THEN s
    ELSE IF Char(s, 1) \in Whitespace THEN Strip(SubSeq(s, 2, Len(s)))
    ELSE IF Char(s, Len(s)) \in Whitespace
    THEN Strip(SubSeq(s, 1, Len(s) - 1))
    ELSE s

\* s without a leading sign
Unsigned(s) ==
    IF Len(s) > 0 /\ Char(s, 1) \in {"+", "-"}
    THEN SubSeq(s, 2, Len(s))
    ELSE s

\* digits, with single underscores allowed between them
IsDigitString(u) ==
    /\ Len(u) > 0
    /\ IsDigit(Char(u, 1))
    /\ IsDigit(Char(u, Len(u)))
    /\ \A i \in 1..Len(u) :
         \/ IsDigit(Char(u, i))
         \/ Char(u, i) = "_" /\ IsDigit(Char(u, i + 1))

\* int(s) does not raise ValueError (ASCII decimal literals)
IsIntLiteral(s) == IsDigitString(Unsigned(Strip(s)))

RECURSIVE DigitsValue(_)
DigitsValue(u) ==
    IF Len(u) = 0 THEN 0
    ELSE IF Char(u, Len(u)) = "_" THEN DigitsValue(SubSeq(u, 1, Len(u) - 1))
    ELSE DigitsValue(SubSeq(u, 1, Len(u) - 1)) * 10 + DigitVal(Char(u, Len(u)))

\* int(s) of argparse's type=int; values below 2^31 / 100
ParseInt(s) ==
    LET t == Strip(s) IN
    IF Char(t, 1) = "-" THEN 0 - DigitsValue(Unsigned(t))
    ELSE DigitsValue(Unsigned(t))

\* os.path.abspath on a normalised path
AbsPath(p) == IF StartsWith(p, "/") THEN p ELSE Cwd \o "/" \o p

\* ------------------------------------------------------------- numbers
DefaultThreads == 16
DefaultTreePars == 10
DefaultTreeBs == 10
DefaultQuantilePercent == 25
DefaultTopN == 50
PercentBase == 100
ExitSuccess == 0
\* variant: sys.exit() without a status
ExitErrorZero == ExitSuccess
ExitError == 1
ExitUsage == 2

\* variant: the percent value is passed on undivided
ToFractionUndivided(p) == [num |-> p, den |-> 1]

\* args.quantile/100: true division, kept as the exact ratio
ToFraction(p) == [num |-> p, den |-> PercentBase]

\* the quantile=0.25 default of run_workflow's signature
DefaultQuantile == [num |-> 25, den |-> 100]

\* "{}".format(x) of the float x = num/den with at most two decimals: the
\* shortest decimal, always with a fractional part
FloatRepr(q) ==
    LET a == IF q.num < 0 THEN 0 - q.num ELSE q.num
        whole == a \div q.den
        r0 == a % q.den
        d1 == (r0 * 10) \div q.den
        r1 == (r0 * 10) % q.den
        d2 == (r1 * 10) \div q.den
    IN (IF q.num < 0 THEN "-" ELSE "") \o ToString(whole) \o "." \o
       (IF r0 = 0 THEN "0"
        ELSE IF r1 = 0 THEN DigitChar(d1)
        ELSE DigitChar(d1) \o DigitChar(d2))

\* ------------------------------------------------------------ argparse
\* ArgumentParser.parse_args of Python 3.11 for the parser of __main__.
\* Not covered: a value "--" attached with "=".
HelpOptions == {"-h", "--help"}
StoreOptions ==
    {"--data_dir", "--output_dir", "--metadata", "--threads", "--tree_pars",
     "--tree_bs", "--quantile", "--top_n"}
OptionStrings == HelpOptions \cup StoreOptions
IntOptions == {"--threads", "--tree_pars", "--tree_bs", "--quantile", "--top_n"}
RequiredOptions == {"--data_dir", "--output_dir", "--metadata"}

\* the namespace before any option is stored
EmptyNamespace == [o \in StoreOptions |-> None]

\* _negative_number_matcher, ^-\d+$|^-\d*\.\d+$ : -digits, or -digits.digits,
\* where "$" also matches before one final newline
IsNegativeNumber(tok) ==
    /\ Len(tok) >= 2
    /\ Char(tok, 1) = "-"
    /\ LET end == IF Char(tok, Len(tok)) = "\n" THEN Len(tok) - 1
                  ELSE Len(tok)
           body == SubSeq(tok, 2, end)
           dot == IndexOf(body, ".")
           AllDigits(u) == \A i \in 1..Len(u) : IsDigit(Char(u, i))
       IN IF dot = 0 THEN Len(body) > 0 /\ AllDigits(body)
          ELSE /\ AllDigits(SubSeq(body, 1, dot - 1))
               /\ dot < Len(body)
               /\ AllDigits(SubSeq(body, dot + 1, Len(body)))

\* _get_option_tuples: the options a token of two or more characters may
\* abbreviate, each with the argument attached to the token
OptionTuples(tok) ==
    IF Char(tok, 2) = "-"
    THEN LET eq == IndexOf(tok, "=")
             pre == IF eq > 0 THEN SubSeq(tok, 1, eq - 1) ELSE tok
             ex == IF eq > 0 THEN Some(SubSeq(tok, eq + 1, Len(tok)))
                   ELSE None
         IN {[kind |-> "O", opt |-> o, explicit |-> ex] :
                o \in {x \in OptionStrings : StartsWith(x, pre)}}
    ELSE {[kind |-> "O", opt |-> o,
           explicit |-> Some(SubSeq(tok, 3, Len(tok)))] :
             o \in {x \in OptionStrings : x = SubSeq(tok, 1, 2)}}
         \cup
         {[kind |-> "O", opt |-> o, explicit |-> None] :
             o \in {x \in OptionStrings :
                      x # SubSeq(tok, 1, 2) /\ StartsWith(x, tok)}}

\* _parse_optional: "A" an argument, "O" an option of the parser, "U" an
\* option the parser does not know, "amb" an ambiguous abbreviation
ParseOptional(tok) ==
    LET Arg == [kind |-> "A", opt |-> "", explicit |-> None]
        eq == IndexOf(tok, "=")
    IN
    IF tok = "" THEN Arg
    ELSE IF Char(tok, 1) # "-" THEN Arg
    ELSE IF tok \in OptionStrings
    THEN [kind |-> "O", opt |-> tok, explicit |-> None]
    ELSE IF Len(tok) = 1 THEN Arg
    ELSE IF eq > 0 /\ SubSeq(tok, 1, eq - 1) \in OptionStrings
    THEN [kind |-> "O", opt |-> SubSeq(tok, 1, eq - 1),
          explicit |-> Some(SubSeq(tok, eq + 1, Len(tok)))]
    ELSE IF Cardinality(OptionTuples(tok)) > 1
    THEN [kind |-> "amb", opt |-> "", explicit |-> None]
    ELSE IF Cardinality(OptionTuples(tok)) = 1
    THEN CHOOSE t \in OptionTuples(tok) : TRUE
    ELSE IF IsNegativeNumber(tok) THEN Arg
    ELSE IF IndexOf(tok, " ") > 0 THEN Arg
    ELSE [kind |-> "U", opt |-> "", explicit |-> None]

\* the position of the first "--", or one past the end
DashIndex(av) ==
    IF \E i \in DOMAIN av : av[i] = "--"
    THEN CHOOSE i \in DOMAIN av :
            av[i] = "--" /\ \A j \in 1..(i - 1) : av[j] # "--"
    ELSE Len(av) + 1

\* arg_strings_pattern: "O", "A" or "-" per token, "" past the end
Pattern(av, i) ==
    IF i > Len(av) THEN ""
    ELSE IF i = DashIndex(av) THEN "-"
    ELSE IF i > DashIndex(av) THEN "A"
    ELSE IF ParseOptional(av[i]).kind = "A" THEN "A"
    ELSE "O"

\* an ambiguous abbreviation is reported while the pattern is built
Ambiguous(av) ==
    \E i \in 1..(DashIndex(av) - 1) : ParseOptional(av[i]).kind = "amb"

\* "-h" followed by more single-letter options: only h is one
OnlyH(e) == \A i \in 1..Len(e) : Char(e, i) = "h"

\* the loop of _parse_known_args from token i on: status "help" when the
\* help action is taken, "error" when an ArgumentError is raised, "end"
\* when the tokens are used up; extras tells whether a token was left over
RECURSIVE ParseFrom(_, _, _, _)
ParseFrom(av, i, ns, extras) ==
    IF i > Len(av)
    THEN [status |-> "end", ns |-> ns, extras |-> extras]
    ELSE IF Pattern(av, i) # "O"
    THEN ParseFrom(av, i + 1, ns, TRUE)
    ELSE
      LET c == ParseOptional(av[i])
          Error == [status |-> "error", ns |-> ns, extras |-> extras]
          Store(value, next) ==
              IF c.opt \in IntOptions /\ ~IsIntLiteral(value)
              THEN Error
              ELSE ParseFrom(av, next, [ns EXCEPT ![c.opt] = Some(value)],
                             extras)
      IN
      IF c.kind = "U" THEN ParseFrom(av, i + 1, ns, TRUE)
      ELSE IF c.opt \in HelpOptions
      THEN IF \/ c.explicit = None
              \/ c.opt = "-h" /\ c.explicit[1] # "" /\ OnlyH(c.explicit[1])
           THEN [status |-> "help", ns |-> ns, extras |-> extras]
           ELSE Error
      ELSE IF c.explicit # None THEN Store(c.explicit[1], i + 1)
      ELSE IF Pattern(av, i + 1) = "A" THEN Store(av[i + 1], i + 2)
      ELSE Error

Scan(av) == ParseFrom(av, 1, EmptyNamespace, FALSE)

\* the help action: format_help() expands every help string with "%", and
\* the help of --quantile holds a bare "%", so it raises ValueError
HelpRequested(av) == ~Ambiguous(av) /\ Scan(av).status = "help"

\* parser.parse_args() ends the process with a usage error
UsageError(av) ==
    \/ Ambiguous(av)
    \/ Scan(av).status = "error"
    \/ /\ Scan(av).status = "end"
       /\ \/ Scan(av).extras
          \/ \E f \in RequiredOptions : Scan(av).ns[f] = None

\* the value of an int option, or its default
IntOption(av, flag, default) ==
    IF Scan(av).ns[flag] = None THEN default
    ELSE ParseInt(Scan(av).ns[flag][1])

\* the keyword arguments __main__ passes to run_workflow
CallFromMain(av) ==
    [data_dir   |-> Scan(av).ns["--data_dir"][1],
     output_dir |-> Scan(av).ns["--output_dir"][1],
     metadata   |-> Some(Scan(av).ns["--metadata"][1]),
     threads    |-> IntOption(av, "--threads", DefaultThreads),
     tree_pars  |-> IntOption(av, "--tree_pars", DefaultTreePars),
     tree_bs    |-> IntOption(av, "--tree_bs", DefaultTreeBs),
     quantile   |-> ToFraction(IntOption(av, "--quantile",
                                         DefaultQuantilePercent)),
     top_n      |-> IntOption(av, "--top_n", DefaultTopN)]

\* a direct call run_workflow(data_dir, output_dir[, metadata])
DirectCalls ==
    {[data_dir   |-> d,
      output_dir |-> o,
      metadata   |-> m,
      threads    |-> DefaultThreads,
      tree_pars  |-> DefaultTreePars,
      tree_bs    |-> DefaultTreeBs,
      quantile   |-> DefaultQuantile,
      top_n      |-> DefaultTopN] :
        d \in DataDirs, o \in OutputDirs,
        m \in {None} \cup {Some(p) : p \in MetadataPaths}}

\* ------------------------------------------------- run_workflow helpers
\* "if metadata:" is false for None and for the empty string
Truthy(m) == m # None /\ m[1] # ""

IsCsv(m) == EndsWith(m, ".csv")
IsXlsx(m) == EndsWith(m, ".xlsx")

\* variant: only an empty table is rejected
WrongColumnCountOnlyEmpty(df) == Len(df) = 0

\* fasta_files_df.shape[1] != 1
WrongColumnCount(df) == Len(df) # 1

\* variant: the column is taken last row first
ToListReversed(df) ==
    [i \in DOMAIN df[1].values |->
        df[1].values[Len(df[1].values) + 1 - i]]

\* fasta_files_df.iloc[:, 0].tolist()
ToList(df) == df[1].values

\* variant: the suffix is tested without its dot
IsFastaNoDot(f) == EndsWith(f, "fasta")

IsFasta(f) == EndsWith(f, ".fasta")

\* [f for f in os.listdir(data_dir) if f.endswith(".fasta")]
RECURSIVE FilterFasta(_)
FilterFasta(l) ==
    IF l = <<>> THEN <<>>
    ELSE (IF IsFasta(Head(l)) THEN <<Head(l)>> ELSE <<>>)
         \o FilterFasta(Tail(l))

\* os.makedirs(output_dir, exist_ok=True): raises when the path is a file
MakedirsRaises(st) == st = "file"
\* variant: the directory is looked at but never created
MakedirsResultUnchanged(st) == st
MakedirsResult(st) == IF st = "absent" THEN "dir" ELSE st

\* variant: check=False, the return code is ignored
CheckFailsNever(rc) == FALSE

\* check=True: CalledProcessError on a non-zero return code
CheckFails(rc) == rc # 0

\* ------------------------------------------------------------ commands
prepare_command(a, files) ==
    <<"docker", "run", "--rm", "-v", AbsPath(a.data_dir) \o ":/data",
      "-v", AbsPath(a.output_dir) \o ":/output",
      "rakanhaib/opggb", "python", "/prepare_and_mash_input.py", "/data">>
    \o files

repeatmask_command(a) ==
    <<"docker", "run", "--rm", "-v", AbsPath(a.output_dir) \o ":/data",
      "pegi3s/repeat_masker", "bash", "-c",
      "RepeatMasker /data/downsampled_panSN_output.fasta -pa "
          \o ToString(a.threads) \o " -no_is -s">>

extract_command(a) ==
    <<"docker", "run", "--rm", "-v", AbsPath(a.output_dir) \o ":/data",
      "rakanhaib/opggb", "python", "/run_repeatmask.py">>

pggb_command(a) ==
    <<"docker", "run", "--rm", "-v", AbsPath(a.output_dir) \o ":/output",
      "rakanhaib/opggb", "python", "/run_pggb.py", ToString(a.threads)>>

stats_command(a) ==
    <<"docker", "run", "--rm",
      "-v", AbsPath(a.output_dir) \o ":/data",
      "rakanhaib/opggb",
      "python", "/run_stats.py",
      "--threads", ToString(a.threads),
      "--tree_pars", ToString(a.tree_pars),
      "--tree_bs", ToString(a.tree_bs),
      "--input_dir", "/data/pggb_output",
      "--output_dir", "/data/MineGraph_output",
      "--quantile", FloatRepr(a.quantile),
      "--top_n", ToString(a.top_n)>>

\* variant: extraction is started before masking
PipelineSwapped == <<"Prepare", "Extract", "Mask", "Align", "Stats">>

\* the order in which run_workflow's body runs the stages
Pipeline == <<"Prepare", "Mask", "Extract", "Align", "Stats">>

StageCommand(name, a, files) ==
    CASE name = "Prepare" -> prepare_command(a, files)
      [] name = "Mask"    -> repeatmask_command(a)
      [] name = "Extract" -> extract_command(a)
      [] name = "Align"   -> pggb_command(a)
      [] name = "Stats"   -> stats_command(a)

\* ------------------------------------------------------------- messages
ErrFormat == "[ERROR] Unsupported file format. Please use CSV or XLSX."
ErrColumns ==
    "[ERROR] Metadata file must contain only one column with FASTA file names."
\* the lines print_help() writes; a character outside ASCII is written
\* <U+hex>
HelpBanner ==
    <<"",
      "    ============================================================",
      "    || WELCOME TO THE MineGraph - GRAPH ANALYSIS WORKFLOW      ||",
      "    ============================================================",
      "    |                                                          |",
      "    |     This workflow will take you through:                 |",
      "    |     - FASTA preparation and compression                  |",
      "    |     - Repeat Masker analysis for Tandem Repeats          |",
      "    |     - PGGB alignment and graph generation                |",
      "    |     - Graph statistical analysis                         |",
      "    |                                                          |",
      "    |                   Developed witH <U+2764><U+FE0F>                      |",
      "    ============================================================",
      "    ">>

HelpUsage ==
    <<"",
      "    HOW TO USE THIS WORKFLOW:",
      "",
      "    Usage:",
      "        python run_workflow.py --data_dir <data_dir> --output_dir <output_dir> [--metadata <metadata>] [--threads <threads>]",
      "",
      "    Arguments:",
      "        --data_dir    : Directory containing the raw FASTA files.",
      "        --output_dir  : Directory where results will be saved.",
      "        --metadata    : (Optional) CSV or XLSX file with list of FASTA files to process.",
      "                        If not provided, all FASTA files in the <data_dir> will be used.",
      "                        File must have one column with FASTA filenames.",
      "        --threads     : (Optional) Number of threads to use for PGGB and other parallel tasks.",
      "                        Default is 16.",
      "",
      "    EXAMPLES:",
      "        Example 1: Run with selected FASTA files with 64 threads",
      "            $ python run_workflow.py --data_dir /path/to/data --output_dir /path/to/output --metadata selected_files.csv --threads 64",
      "",
      "        Example 2: Run with all FASTA files in the data directory",
      "            $ python run_workflow.py --data_dir /path/to/data --output_dir /path/to/output ",
      "",
      "    LET'S GET STARTED!",
      "    ">>

\* the lines of the final print: an empty line, then the banner
Banner ==
    "<U+1F389> [WORKFLOW COMPLETE] All steps finished successfully. Results are in the specified output directory. <U+1F389>"

BannerLines == <<"", Banner>>

\* printed before the stage's process is started
StepMessage(name, a) ==
    CASE name = "Prepare" -> <<>>
      [] name = "Mask"    ->
           <<"[STEP 2/5] Running RepeatMasker on downsampled FASTA...">>
      [] name = "Extract" ->
           <<"[STEP 3/5] Extracting longest tandem repeat and updating parameters...">>
      [] name = "Align"   ->
           <<"[STEP 4/5] Running PGGB with " \o ToString(a.threads)
               \o " threads...">>
      [] name = "Stats"   ->
           <<"[STEP 5/5] Performing statistical analysis on generated graph and alignments...">>

\* printed after the stage's process has returned 0
DoneMessage(name) ==
    CASE name = "Prepare" -> <<>>
      [] name = "Mask"    -> <<"[INFO] RepeatMasker analysis completed.">>
      [] name = "Extract" ->
           <<"[INFO] Longest tandem repeat extraction completed and params.yaml updated.">>
      [] name = "Align"   ->
           <<"[INFO] PGGB alignment and graph generation completed.">>
      [] name = "Stats"   -> <<"[INFO] Statistical analysis completed.">>

\* ---------------------------------------------------------------- state
VARIABLES
    pc,            \* where the process is
    argv,          \* sys.argv[1:] (empty for a direct call of a function)
    args,          \* None, or Some(the arguments run_workflow was called with)
    fs_out,        \* what is at the output directory's path
    dir_listing,   \* None, or Some(what os.listdir(data_dir) returned)
    manifest_file, \* None, or Some(what the manifest path held when read)
    fasta_files,   \* the resolved list of file names
    step,          \* index in Pipeline of the stage about to run or running
    calls,         \* the external processes started so far, in order
    stdout,        \* the lines printed so far
    exit_code      \* None while running, Some(status) once exited

vars == <<pc, argv, args, fs_out, dir_listing, manifest_file, fasta_files,
          step, calls, stdout, exit_code>>

Params == args[1]

Init ==
    /\ fs_out \in OutStates
    /\ dir_listing = None
    /\ manifest_file = None
    /\ fasta_files = <<>>
    /\ step = 1
    /\ calls = <<>>
    /\ stdout = <<>>
    /\ exit_code = None
    /\ \/ /\ pc = "main"
          /\ argv \in Argvs
          /\ args = None
       \/ /\ pc = "run_workflow"
          /\ argv = <<>>
          /\ args \in {Some(c) : c \in DirectCalls}
       \/ /\ pc = "print_help"
          /\ argv = <<>>
          /\ args = None

\* the process ends with the given status
Exit(label, status) ==
    /\ pc' = label
    /\ exit_code' = Some(status)

\* __main__: parse the command line and call run_workflow; the help action
\* ends in an uncaught ValueError (status 1, nothing printed), a rejected
\* command line in parser.error (status 2)
ParseArgs ==
    /\ pc = "main"
    /\ IF HelpRequested(argv)
       THEN Exit("help", ExitError) /\ UNCHANGED args
       ELSE IF UsageError(argv)
       THEN Exit("usage_error", ExitUsage) /\ UNCHANGED args
       ELSE /\ args' = Some(CallFromMain(argv))
            /\ pc' = "run_workflow"
            /\ UNCHANGED exit_code
    /\ UNCHANGED <<argv, fs_out, dir_listing, manifest_file, fasta_files,
                   step, calls, stdout>>

\* a direct call print_help()
PrintHelp ==
    /\ pc = "print_help"
    /\ stdout' = stdout \o HelpBanner \o HelpUsage
    /\ Exit("help_printed", ExitSuccess)
    /\ UNCHANGED <<argv, args, fs_out, dir_listing, manifest_file,
                   fasta_files, step, calls>>

\* os.makedirs(output_dir, exist_ok=True)
MakeDirs ==
    /\ pc = "run_workflow"
    /\ IF MakedirsRaises(fs_out)
       THEN Exit("os_error", ExitError) /\ UNCHANGED fs_out
       ELSE /\ fs_out' = MakedirsResult(fs_out)
            /\ pc' = "resolve"
            /\ UNCHANGED exit_code
    /\ UNCHANGED <<argv, args, dir_listing, manifest_file, fasta_files,
                   step, calls, stdout>>

\* the "if metadata:" branch: load the manifest and take its only column
ResolveManifest ==
    /\ pc = "resolve"
    /\ Truthy(Params.metadata)
    /\ \E f \in ManifestFiles :
         LET m == Params.metadata[1] IN
         IF ~IsCsv(m) /\ ~IsXlsx(m)
         THEN /\ stdout' = Append(stdout, ErrFormat)
              /\ Exit("config_error", ExitError)
              /\ UNCHANGED <<manifest_file, fasta_files>>
         ELSE IF f = None \/ (IsCsv(m) /\ f[1] = <<>>)
         THEN \* FileNotFoundError, or read_csv's EmptyDataError
              /\ manifest_file' = Some(f)
              /\ Exit("io_error", ExitError)
              /\ UNCHANGED <<stdout, fasta_files>>
         ELSE IF WrongColumnCount(f[1])
         THEN /\ manifest_file' = Some(f)
              /\ stdout' = Append(stdout, ErrColumns)
              /\ Exit("config_error", ExitError)
              /\ UNCHANGED fasta_files
         ELSE /\ manifest_file' = Some(f)
              /\ fasta_files' = ToList(f[1])
              /\ stdout' = Append(stdout,
                     "[INFO] Processing " \o ToString(Len(ToList(f[1])))
                     \o " FASTA files from " \o m)
              /\ pc' = "ready"
              /\ UNCHANGED exit_code
    /\ UNCHANGED <<argv, args, fs_out, dir_listing, step, calls>>

\* the "else" branch: every *.fasta entry of data_dir
ResolveListing ==
    /\ pc = "resolve"
    /\ ~Truthy(Params.metadata)
    /\ \E l \in {None} \cup {Some(x) : x \in Listings} :
         /\ dir_listing' = Some(l)
         /\ IF l = None
            THEN \* data_dir does not exist: FileNotFoundError
                 /\ Exit("io_error", ExitError)
                 /\ UNCHANGED <<fasta_files, stdout>>
            ELSE /\ fasta_files' = FilterFasta(l[1])
                 /\ stdout' = Append(stdout,
                        "[INFO] Processing all FASTA files in "
                        \o Params.data_dir \o ".")
                 /\ pc' = "ready"
                 /\ UNCHANGED exit_code
    /\ UNCHANGED <<argv, args, fs_out, manifest_file, step, calls>>

\* subprocess.run(...) starts the stage's container and blocks
StartStage(k) ==
    /\ pc = "ready"
    /\ step = k
    /\ stdout' = stdout \o StepMessage(Pipeline[k], Params)
    /\ calls' = Append(calls,
                  [stage |-> Pipeline[k],
                   cmd   |-> StageCommand(Pipeline[k], Params, fasta_files),
                   rc    |-> None])
    /\ pc' = "running"
    /\ UNCHANGED <<argv, args, fs_out, dir_listing, manifest_file,
                   fasta_files, step, exit_code>>

\* the container exits with rc and subprocess.run(check=True) returns or raises
StageExits(k, rc) ==
    /\ pc = "running"
    /\ step = k
    /\ calls' = [calls EXCEPT ![Len(calls)].rc = Some(rc)]
    /\ IF CheckFails(rc)
       THEN /\ Exit("stage_failed", ExitError)
            /\ UNCHANGED <<stdout, step>>
       ELSE IF k = Len(Pipeline)
       THEN /\ stdout' = stdout \o DoneMessage(Pipeline[k]) \o BannerLines
            /\ Exit("done", ExitSuccess)
            /\ UNCHANGED step
       ELSE /\ stdout' = stdout \o DoneMessage(Pipeline[k])
            /\ step' = k + 1
            /\ pc' = "ready"
            /\ UNCHANGED exit_code
    /\ UNCHANGED <<argv, args, fs_out, dir_listing, manifest_file,
                   fasta_files>>

Next ==
    \/ ParseArgs
    \/ PrintHelp
    \/ MakeDirs
    \/ ResolveManifest
    \/ ResolveListing
    \/ \E k \in DOMAIN Pipeline : StartStage(k)
    \/ \E k \in DOMAIN Pipeline, rc \in ReturnCodes : StageExits(k, rc)

Spec == Init /\ [][Next]_vars

\* ----------------------------------------------------------- properties
Range(q) == {q[i] : i \in DOMAIN q}

Failed(c) == c.rc # None /\ c.rc[1] # 0
Succeeded(c) == c.rc = Some(0)

ExpectedOrder == <<"Prepare", "Mask", "Extract", "Align", "Stats">>
ExpectedTool ==
    <<"/prepare_and_mash_input.py", "pegi3s/repeat_masker",
      "/run_repeatmask.py", "/run_pggb.py", "/run_stats.py">>

AllFiveSucceeded ==
    /\ Len(calls) = Len(ExpectedOrder)
    /\ \A i \in DOMAIN calls :
         calls[i].stage = ExpectedOrder[i] /\ Succeeded(calls[i])

\* the positional arguments of stage 1 that follow "/data"
PositionalFiles(cmd) ==
    SubSeq(cmd, (CHOOSE i \in DOMAIN cmd : cmd[i] = "/data") + 1, Len(cmd))

\* C1: a stage that exited non-zero is the last stage started, and the
\* process has exited with a non-zero status.
FailFast ==
    \A i \in DOMAIN calls :
        Failed(calls[i]) =>
            /\ i = Len(calls)
            /\ exit_code # None
            /\ exit_code[1] # 0

FailFastWitness ==
    /\ Len(calls) = 3
    /\ calls[3].stage = "Extract"
    /\ calls[3].rc = Some(1)
    /\ exit_code = Some(1)

\* C2: the stages are started in the order Prepare, Mask, Extract, Align,
\* Stats, each one only after the one before it returned 0, none twice, and
\* a completed run has started each of the five exactly once.
StrictOrdering ==
    /\ Len(calls) <= Len(ExpectedOrder)
    /\ \A i \in DOMAIN calls :
         /\ calls[i].stage = ExpectedOrder[i]
         /\ ExpectedTool[i] \in Range(calls[i].cmd)
         /\ \A j \in DOMAIN ExpectedTool :
              j # i => ExpectedTool[j] \notin Range(calls[i].cmd)
         /\ i < Len(calls) => Succeeded(calls[i])
    /\ pc = "done" => AllFiveSucceeded

StrictOrderingWitness ==
    /\ pc = "done"
    /\ Len(calls) = 5
    /\ \A i \in DOMAIN calls : Succeeded(calls[i])

\* C3: with a manifest path whose extension is neither .csv nor .xlsx, or
\* whose table does not have exactly one column, no stage is ever started
\* and the run ends with exit code 1.
ManifestSupplied == args # None /\ Truthy(Params.metadata)

BadManifest ==
    \/ /\ ~EndsWith(Params.metadata[1], ".csv")
       /\ ~EndsWith(Params.metadata[1], ".xlsx")
    \/ /\ manifest_file # None
       /\ manifest_file[1] # None
       /\ Len(manifest_file[1][1]) # 1

ConfigErrorsAbort ==
    (ManifestSupplied /\ BadManifest) =>
        /\ calls = <<>>
        /\ pc \notin {"run_workflow", "resolve", "os_error"} =>
              /\ pc \in {"config_error", "io_error"}
              /\ exit_code = Some(1)

ConfigErrorsAbortWitness ==
    /\ pc = "config_error"
    /\ manifest_file # None
    /\ manifest_file[1] # None
    /\ Len(manifest_file[1][1]) = 2
    /\ exit_code = Some(1)

\* C4: a command line that gives --data_dir and --output_dir, has no
\* --metadata and is otherwise well formed is not rejected as a usage error.
ManifestOptional ==
    (/\ argv # <<>>
     /\ ~Ambiguous(argv)
     /\ Scan(argv).status = "end"
     /\ ~Scan(argv).extras
     /\ Scan(argv).ns["--data_dir"] # None
     /\ Scan(argv).ns["--output_dir"] # None
     /\ Scan(argv).ns["--metadata"] = None)
    => pc # "usage_error"

\* C5: with a one-column manifest the resolved list is the column's names
\* in file order, and they are exactly what follows "/data" in stage 1's
\* command.
ManifestOrderKept ==
    (ManifestSupplied /\ pc \in {"ready", "running", "stage_failed", "done"})
    =>
        LET names == manifest_file[1][1][1].values IN
        /\ Len(manifest_file[1][1]) = 1
        /\ fasta_files = names
        /\ calls # <<>> =>
              /\ calls[1].stage = "Prepare"
              /\ PositionalFiles(calls[1].cmd) = names

ManifestOrderKeptWitness ==
    /\ ManifestSupplied
    /\ calls # <<>>
    /\ manifest_file = Some(Some(<<[name |-> "fasta_files",
                                    values |-> <<"b.fasta", "a.fasta">>]>>))
    /\ PositionalFiles(calls[1].cmd) = <<"b.fasta", "a.fasta">>

\* C6: without a manifest a name is in the resolved list, and among stage
\* 1's positional arguments, exactly when it is an entry of the input
\* directory whose name ends with ".fasta".
HasFastaSuffix(n) ==
    /\ Len(n) >= Len(".fasta")
    /\ SubSeq(n, 1, Len(n) - Len(".fasta")) \o ".fasta" = n

ListingFiltered ==
    (/\ args # None
     /\ ~Truthy(Params.metadata)
     /\ pc \in {"ready", "running", "stage_failed", "done"})
    =>
        LET wanted == {n \in Range(dir_listing[1][1]) : HasFastaSuffix(n)} IN
        /\ Range(fasta_files) = wanted
        /\ calls # <<>> => Range(PositionalFiles(calls[1].cmd)) = wanted

ListingFilteredWitness ==
    /\ args # None
    /\ Params.metadata = None
    /\ calls # <<>>
    /\ dir_listing = Some(Some(<<"d_fasta", "a.fasta">>))
    /\ PositionalFiles(calls[1].cmd) = <<"a.fasta">>

\* C7: the success banner and exit code 0 of a run of the workflow occur
\* only after all five stages were started and returned 0; a run ended by
\* a configuration error or a stage failure has no banner and a non-zero
\* exit code.
SuccessOnlyAfterAllStages ==
    /\ (Banner \in Range(stdout) \/ pc = "done") =>
          AllFiveSucceeded /\ exit_code = Some(0)
    /\ (args # None /\ exit_code = Some(0)) =>
          AllFiveSucceeded /\ Banner \in Range(stdout)
    /\ pc \in {"config_error", "stage_failed"} =>
          /\ Banner \notin Range(stdout)
          /\ exit_code # None
          /\ exit_code[1] # 0

SuccessOnlyAfterAllStagesWitness ==
    /\ Banner \in Range(stdout)
    /\ exit_code = Some(0)
    /\ AllFiveSucceeded

\* C8: stage 5 receives --quantile as the decimal fraction p/100 of the
\* percent p given on the command line (25 when absent), and no other
\* stage receives a quantile.
GivenQuantile ==
    IF argv = <<>> THEN None ELSE Scan(argv).ns["--quantile"]

RequestedPercent ==
    IF GivenQuantile = None THEN 25 ELSE ParseInt(GivenQuantile[1])

QuantileArg(cmd) ==
    cmd[(CHOOSE i \in DOMAIN cmd : cmd[i] = "--quantile") + 1]

\* the value of a decimal "[-]w.f" with one or two fraction digits, times 100
Hundredths(s) ==
    LET neg == SubSeq(s, 1, 1) = "-"
        u == IF neg THEN SubSeq(s, 2, Len(s)) ELSE s
        d == CHOOSE i \in 1..Len(u) : SubSeq(u, i, i) = "."
        w == SubSeq(u, 1, d - 1)
        f == SubSeq(u, d + 1, Len(u))
        v == DigitsValue(w) * 100
             + (IF Len(f) = 1 THEN DigitsValue(f) * 10 ELSE DigitsValue(f))
    IN IF neg THEN 0 - v ELSE v

QuantileAsFraction ==
    \A i \in DOMAIN calls :
        IF calls[i].stage = "Stats"
        THEN /\ "--quantile" \in Range(calls[i].cmd)
             /\ Hundredths(QuantileArg(calls[i].cmd)) = RequestedPercent
             /\ RequestedPercent = 25 => QuantileArg(calls[i].cmd) = "0.25"
        ELSE /\ "--quantile" \notin Range(calls[i].cmd)
             /\ FloatRepr(Params.quantile) \notin Range(calls[i].cmd)

QuantileAsFractionWitness ==
    \E i \in DOMAIN calls :
        /\ calls[i].stage = "Stats"
        /\ GivenQuantile = Some("5")
        /\ QuantileArg(calls[i].cmd) = "0.05"

\* C9: stage 1 is never started with an empty list of file names.
StageOneHasFiles ==
    \A i \in DOMAIN calls :
        calls[i].stage = "Prepare" =>
            /\ fasta_files # <<>>
            /\ PositionalFiles(calls[i].cmd) # <<>>

\* C10: the output directory exists from the moment the file set is being
\* resolved: in every state with a stage started, and in a run that ended
\* with a configuration error.
OutputDirExists ==
    /\ calls # <<>> => fs_out = "dir"
    /\ pc \in {"resolve", "ready", "running", "config_error", "io_error",
               "stage_failed", "done"} => fs_out = "dir"

OutputDirExistsWitness ==
    /\ pc = "config_error"
    /\ calls = <<>>
    /\ fs_out = "dir"

====
